---- MODULE Spec2Model ----
(***************************************************************************)
(* Session / API-client / route-guard core of the admin dashboard.         *)
(*                                                                         *)
(* The browser page is a single-threaded event loop: every action below is *)
(* one task of that loop (an event handler, a promise continuation chain,  *)
(* or a page load) together with the React render and effects it causes.   *)
(* State updates made in one task are rendered together (batched).         *)
(***************************************************************************)
EXTENDS Integers, Sequences, FiniteSets, Bags, TLC

\* ------------------------------------------------------------------ bounds
MaxInflight == 2        \* requests that may be in flight at the same time
MaxRedirects == 2       \* saturation of the per-page redirect counter
MaxFetches == 2         \* fetches one Activity Explorer page starts

\* ------------------------------------------------------------------ values
Null == "null"                       \* JS null / undefined / absent key
EmptyString == ""                    \* JS '' (falsy, but not null)
Tokens == {"t1", "t2"}               \* opaque bearer tokens a server issues

NullUser == [user_id |-> 0, role |-> "null"]
Principals ==
  { [user_id |-> 1, role |-> "admin"],
    [user_id |-> 2, role |-> "admin"],
    [user_id |-> 3, role |-> "user"] }

\* JS truthiness of a string-or-null value
Truthy(v) == v # Null /\ v # EmptyString

\* JS truthiness of an object-or-null value
TruthyObj(o) == o # NullUser

\* ------------------------------------------------- localStorage 'user' text
\* The text stored under a key: absent, '', text that is not JSON, or the
\* JSON text of a principal.
RawAbsent == [kind |-> "absent", value |-> NullUser]
RawEmpty == [kind |-> "empty", value |-> NullUser]
RawGarbage == [kind |-> "garbage", value |-> NullUser]

JSONstringify(d) == [kind |-> "json", value |-> d]

RawTruthy(raw) == raw.kind # "absent" /\ raw.kind # "empty"

\* (variant: the stored text is never decoded into a principal)
JSONparse_Undecoded(raw) == [threw |-> FALSE, value |-> NullUser]

\* JSON.parse: throws a SyntaxError on text that is not JSON
JSONparse(raw) ==
  IF raw.kind = "json"
    THEN [threw |-> FALSE, value |-> raw.value]
    ELSE [threw |-> TRUE, value |-> NullUser]

\* ------------------------------------------------------------ HTTP headers
NoHeader == <<>>
Bearer(tok) == <<"Bearer", tok>>

\* ----------------------------------------------------------------- messages
MsgInvalidResponse == "Invalid response from server"
MsgNotAdmin == "account is not an administrator (admin)"
MsgLoginFailed == "Login failed"
ServerMessages == {"invalid credentials"}
ErrMessages == {"Network Error", EmptyString}

TimeoutMs == 10000

\* HTTP outcomes of a request; 0 stands for "no response" (network failure
\* or the client timeout)
Resolves(status) == status >= 200 /\ status < 300
AuthStatuses == {401, 403}
Statuses == {0, 200, 401, 403, 500}

VARIABLES
  phase,          \* "running" | "crashed" (render threw, nothing mounted)
  strictGuard,    \* which ProtectedRoute revision is built in
  lsToken,        \* localStorage['token']
  lsUser,         \* localStorage['user'] (raw text)
  lsAdminToken,   \* localStorage['admin_token']
  token,          \* AuthProvider state
  user,           \* AuthProvider state
  defaultAuth,    \* api.defaults.headers.common['Authorization']
  location,       \* route being shown: "/login" | "/admin"
  navPending,     \* window.location.href assigned, page not yet replaced
  inflight,       \* bag of the requests dispatched and not yet settled
  formLoading,    \* Login form state
  formError,      \* Login form state
  last,           \* history: the task that led to this state
  redirects,      \* history: href assignments since the page was loaded
  destroyed,      \* history: "no" | "logout" | "intercepted"
  windowKey,      \* report view: selected time window
  fromDate,       \* report view: custom range, lower bound ('' if unset)
  toDate,         \* report view: custom range, upper bound ('' if unset)
  params,         \* time parameters of the view's latest request
  received,       \* [view, body]: the response body a view last got
  stored,         \* the value that view put in its state for it
  renderThrew,    \* the render that followed threw
  selectedUserId, \* Activity Explorer: <<>> (null) or <<id>>
  loading,        \* Activity Explorer: loading flag
  summary,        \* Activity Explorer: <<>> (null) or <<p>>, summary for p
  activities,     \* Activity Explorer: <<>> ([]) or <<p>>, the rows for p
  error,          \* Activity Explorer: Null or the message shown
  fetches,        \* Activity Explorer: the fetchData calls made, in order
  fetchLast,      \* Activity Explorer: the step taken last
  openForm,       \* rewards: the form modal is open
  editing,        \* rewards: <<>> (null) or <<r>>, the reward being edited
  title,          \* reward form: name, as characters
  pointCost,      \* reward form: <<>> ('') or <<n>>
  stock,          \* reward form: <<>> ('') or <<n>>
  imageUrl,       \* reward form: URL of the image already stored, or ''
  fileObj,        \* reward form: Null or the file newly selected
  rewardStep,     \* where the running reward handler is suspended
  uploadedUrl,    \* url of the upload response of this submission
  rewardWrite,    \* create/update requests issued by this submission
  list,           \* rewards: the rows shown
  uncaught,       \* a rejected promise escaped a handler of the page
  rewardLast,     \* rewards: the step taken last
  blogRev,        \* blogs: "none" before the page mounts, then the revision
  open,           \* blogs: the editor modal is open
  blogEditing,    \* blogs: <<>> (null) or <<b>>, the blog being edited
  blogTitle,      \* blog form: title, as characters
  content,        \* blog form: HTML, as tags and characters
  authorId,       \* blog form: <<>> ('') or <<id>>
  currentUserId,  \* blogs: <<>> (null) or <<id>> of the signed-in user
  saving,         \* blogs: saving flag
  blogStep,       \* where the running handleSave is suspended
  blogWrite,      \* the write request of the running or last save
  blogs,          \* blogs: the rows shown
  blogLast        \* blogs: the step taken last

viewVars == <<windowKey, fromDate, toDate, params, received, stored, renderThrew>>

fetchVars == <<selectedUserId, loading, summary, activities, error, fetches,
               fetchLast>>

rewardVars == <<openForm, editing, title, pointCost, stock, imageUrl, fileObj,
                rewardStep, uploadedUrl, rewardWrite, list, uncaught,
                rewardLast>>

blogVars == <<blogRev, open, blogEditing, blogTitle, content, authorId,
              currentUserId, saving, blogStep, blogWrite, blogs, blogLast>>

taskVars == <<fetchVars, rewardVars, blogVars>>

vars == <<phase, strictGuard, lsToken, lsUser, lsAdminToken, token, user,
          defaultAuth, location, navPending, inflight, formLoading,
          formError, last, redirects, destroyed, viewVars, taskVars>>

storageVars == <<lsToken, lsUser, lsAdminToken>>
sessionVars == <<token, user, lsToken, lsUser>>
formVars == <<formLoading, formError>>

NoResult == [success |-> FALSE, message |-> Null]

\* How the promise an api call returned settles for its caller
NoOutcome == [how |-> "none", status |-> 0]

\* (variant: an authentication failure is swallowed once the sign-out is
\* under way)
ResponseInterceptor_Swallows(status) ==
  IF Resolves(status) \/ status \in AuthStatuses
    THEN [how |-> "fulfilled", status |-> status]
    ELSE [how |-> "rejected", status |-> status]

\* response interceptor: (response) => response for a 2xx answer,
\* Promise.reject(error) with the same error for everything else
ResponseInterceptor(status) ==
  IF Resolves(status)
    THEN [how |-> "fulfilled", status |-> status]
    ELSE [how |-> "rejected", status |-> status]

SettlingOps == {"response", "loginResponse", "loginError"}

\* The record kept of a task: its name, the HTTP status it handled (0 if
\* none), the Authorization header it dispatched with, what login() resolved
\* to and, for a login call, what the server sent: the body {token, data} of
\* a 2xx response, the message of an error body, the text of the error;
\* and, for a task that settles a request, what its caller received
Event(op, status, auth, result, tkn, data, srvMsg, errMsg) ==
  [op |-> op, status |-> status, auth |-> auth, result |-> result,
   tkn |-> tkn, data |-> data, srvMsg |-> srvMsg, errMsg |-> errMsg,
   caller |-> IF op \in SettlingOps THEN ResponseInterceptor(status) ELSE NoOutcome]

Did(op) == Event(op, 0, NoHeader, NoResult, Null, NullUser, Null, Null)

Dispatched(op, hdr) == Event(op, 0, hdr, NoResult, Null, NullUser, Null, Null)

\* ----------------------------------------------------------- api module
\* (variant: no null check, the header becomes 'Bearer null')
SetAuthToken_NoNullCheck(tok) ==
  [common |-> Bearer(tok), admin_token |-> tok]

\* setAuthToken(token): the default header and the 'admin_token' key
SetAuthToken(tok) ==
  IF Truthy(tok)
    THEN [common |-> Bearer(tok), admin_token |-> tok]
    ELSE [common |-> NoHeader, admin_token |-> Null]

\* request interceptor, applied to a config that already carries the
\* instance defaults: the header the request leaves with
RequestInterceptor(adminTok, common) ==
  IF Truthy(adminTok) THEN Bearer(adminTok) ELSE common

\* response interceptor (error branch): does this error force a sign-out?
IsAuthFailure(status) == status = 401 \/ status = 403

\* ------------------------------------------------------------ route guard
\* ProtectedRoute, first revision: token only
ProtectedRoute(tok) == IF ~Truthy(tok) THEN "/login" ELSE "/admin"

\* (variant: the role is not looked at)
ProtectedRouteStrict_NoRole(tok, usr) ==
  IF ~Truthy(tok) \/ ~TruthyObj(usr) THEN "/login" ELSE "/admin"

\* ProtectedRoute, later revision: token, user and role
ProtectedRouteStrict(tok, usr) ==
  IF ~Truthy(tok) \/ ~TruthyObj(usr) THEN "/login"
  ELSE IF usr.role # "admin" THEN "/login"
  ELSE "/admin"

\* <Routes>: what is shown for a URL under the current session
Route(url, tok, usr, strict) ==
  IF url = "/admin"
    THEN IF strict THEN ProtectedRouteStrict(tok, usr) ELSE ProtectedRoute(tok)
    ELSE "/login"

\* ----------------------------------------------------------- AuthProvider
\* (variant: only the token is read back)
Restore_TokenOnly(rawToken, rawUser) ==
  [threw |-> FALSE, token |-> rawToken, user |-> NullUser]

\* useState initialisers: the session read back from storage
Restore(rawToken, rawUser) ==
  LET parsed == IF RawTruthy(rawUser) THEN JSONparse(rawUser)
                ELSE [threw |-> FALSE, value |-> NullUser]
  IN [threw |-> parsed.threw,
      token |-> IF parsed.threw THEN Null ELSE rawToken,
      user |-> parsed.value]

\* (variant: the state starts empty, storage is not read)
Boot_NoRestore(rawToken, rawUser, rawAdmin, url, strict) ==
  [phase |-> "running",
   token |-> Null,
   user |-> NullUser,
   defaultAuth |-> NoHeader,
   lsAdminToken |-> Null,
   location |-> Route(url, Null, NullUser, strict)]

\* The page after a load at `url` with the given storage: AuthProvider
\* mounts (Restore), the routes render, then the [token] effect runs.
Boot(rawToken, rawUser, rawAdmin, url, strict) ==
  LET s == Restore(rawToken, rawUser)
      a == SetAuthToken(s.token)
  IN [phase |-> IF s.threw THEN "crashed" ELSE "running",
      token |-> s.token,
      user |-> s.user,
      defaultAuth |-> IF s.threw THEN NoHeader ELSE a.common,
      lsAdminToken |-> IF s.threw THEN rawAdmin ELSE a.admin_token,
      location |-> IF s.threw THEN url ELSE Route(url, s.token, s.user, strict)]

\* ------------------------------------------------------------ report views
\* type WindowKey
WindowKey == {"all", "7d", "30d", "90d", "this_week", "this_month", "custom"}

\* (variant: option values spelled as long names)
WindowOptions_LongNames ==
  {"all", "last_7_days", "last_30_days", "last_90_days", "this_week",
   "this_month", "custom"}

\* WindowPicker: the values of the <option>s of its <select>
WindowOptions == {"all", "7d", "30d", "90d", "this_week", "this_month", "custom"}

\* Values of an <input type="date">: '' when cleared
Dates == {EmptyString, "2025-01-01", "2025-01-31"}

\* (variant: the bounds are sent whatever the window is)
makeTimeParams_AlwaysBounds(windowStr, from, to) ==
  LET ks == (IF windowStr = "custom" THEN {} ELSE {"window"})
            \cup (IF Truthy(from) THEN {"from"} ELSE {})
            \cup (IF Truthy(to) THEN {"to"} ELSE {})
  IN [k \in ks |-> IF k = "window" THEN windowStr
                   ELSE IF k = "from" THEN from ELSE to]

\* (variant: an empty bound is sent as an empty string)
makeTimeParams_EmptyBounds(windowStr, from, to) ==
  IF windowStr = "custom"
    THEN [k \in {"from", "to"} |-> IF k = "from" THEN from ELSE to]
    ELSE [k \in {"window"} |-> windowStr]

\* makeTimeParams(windowStr, from, to)
makeTimeParams(windowStr, from, to) ==
  IF windowStr = "custom"
    THEN LET ks == (IF Truthy(from) THEN {"from"} ELSE {})
                   \cup (IF Truthy(to) THEN {"to"} ELSE {})
         IN [k \in ks |-> IF k = "from" THEN from ELSE to]
    ELSE [k \in {"window"} |-> windowStr]

\* --- response bodies, as JS values
JsNull == <<"null">>
JsUndefined == <<"undefined">>
Obj(id) == <<"object", id>>          \* an object that has no `data` key
List(id) == <<"array", id>>
EmptyList == List("empty")           \* []
ZeroAggregates == Obj("zero")        \* { carbon_reduced: 0, carbon_emitted: 0 }
AxiosResponse == <<"response">>      \* the response object itself

\* { data: x } and { data: x, meta: {...} }
Envelope(x, shape) == <<"envelope", shape>> \o x
EnvelopeShapes == {"data", "data+meta"}

IsArray(v) == v[1] = "array"
Nullish(v) == v = JsNull \/ v = JsUndefined
Falsy(v) == Nullish(v)               \* objects and arrays are truthy

\* v?.data
Data(v) == IF v[1] = "envelope" THEN SubSeq(v, 3, Len(v)) ELSE JsUndefined

\* a ?? b
Coalesce(a, b) == IF Nullish(a) THEN b ELSE a

\* a || b
Or(a, b) == IF Falsy(a) THEN b ELSE a

Payloads == {Obj("summary"), List("rows"), EmptyList}
Inner == Payloads \cup {Obj("error"), JsNull}
Bodies == Inner \cup {Envelope(x, sh) : x \in Inner, sh \in EnvelopeShapes}

Views == {"dashboardSummary", "dashboardList", "dashboardAggregates",
          "explorerSummary", "explorerList", "users", "rewards",
          "redemptions", "blogs"}

ListViews == {"dashboardList", "explorerList", "users", "rewards",
              "redemptions", "blogs"}

\* What a view holds before any data and after a failure
Default(view) ==
  IF view \in ListViews THEN EmptyList
  ELSE IF view = "dashboardAggregates" THEN ZeroAggregates
  ELSE JsNull

\* The value each view stores for a response body
Normalize(view, body) ==
  IF view = "users"
    THEN LET payload == IF IsArray(body) THEN body ELSE Data(body)
         IN IF IsArray(payload) THEN payload ELSE EmptyList
  ELSE IF view \in {"explorerSummary", "explorerList"}
    THEN Or(Coalesce(Coalesce(Data(body), body), AxiosResponse), Default(view))
  ELSE IF view \in {"rewards", "redemptions", "blogs"}
    THEN IF IsArray(body) THEN body ELSE Or(Data(body), EmptyList)
  ELSE Coalesce(Data(body), Default(view))

\* Rendering a list view iterates its state (for..of, .map, .filter)
RenderThrows(view, value) == view \in ListViews /\ ~IsArray(value)

NothingReceived == [view |-> "none", body |-> JsUndefined]

ViewInit ==
  /\ windowKey = "all"
  /\ fromDate = EmptyString
  /\ toDate = EmptyString
  /\ params = makeTimeParams("all", EmptyString, EmptyString)
  /\ received = NothingReceived
  /\ stored = JsUndefined
  /\ renderThrew = FALSE

\* -------------------------------------------------------- Activity Explorer
MsgInvalidUserId == "Please enter a valid numeric user_id"
MsgFailedActivities == "Failed to load user activities for this range"
FetchMessages == {"database unavailable"}

\* The two requests of one fetchData call
Datasets == {"summary", "list"}

\* The windows picked while the explorer is watched
FetchWindows == {"all", "7d"}

\* Texts of the user_id box, as characters
UserInputs == {<<>>, <<"a">>, <<"0">>, <<"7">>}

Digits == <<"0", "1", "2", "3", "4", "5", "6", "7", "8", "9">>
IsDigit(c) == \E i \in DOMAIN Digits : Digits[i] = c
DigitValue(c) == (CHOOSE i \in DOMAIN Digits : Digits[i] = c) - 1

RECURSIVE Decimal(_)
Decimal(str) ==
  IF str = <<>> THEN 0
  ELSE 10 * Decimal(SubSeq(str, 1, Len(str) - 1)) + DigitValue(str[Len(str)])

\* Number(text): 0 for '', NaN for text that is not a numeral
Number(str) ==
  IF \A i \in DOMAIN str : IsDigit(str[i])
    THEN [nan |-> FALSE, val |-> Decimal(str)]
    ELSE [nan |-> TRUE, val |-> 0]

\* (variant: only NaN is refused)
ValidUserId_AcceptsZero(idNum) == ~idNum.nan

\* handleLoadUser: !( !idNum || Number.isNaN(idNum) )
ValidUserId(idNum) == ~(idNum.val = 0 \/ idNum.nan)

NoUser == <<>>
SomeUser(id) == <<id>>

\* fetchData: !selectedUserId is false
UserSelected(uid) == uid # NoUser /\ uid[1] # 0

\* params of both requests of a fetch: { user_id, ...timeParams }
RequestParams(uid, timeParams) == [user_id |-> uid[1], time |-> timeParams]

AllPending == [d \in Datasets |-> "pending"]

NewFetch(uid, timeParams) ==
  [params |-> RequestParams(uid, timeParams), req |-> AllPending,
   joined |-> FALSE]

NoData == <<>>
DataFor(p) == <<p>>

\* (variant: the timer of a request is never armed)
TimerArmed_Never == FALSE

\* axios.create({ timeout }): a request is aborted after that many ms
TimerArmed == TimeoutMs > 0

FetchEvent(op, slot, how, input) ==
  [op |-> op, slot |-> slot, how |-> how, input |-> input]

\* ---------------------------------------------------------------- rewards
\* Texts typed in a text box, as characters
Texts == {<<>>, <<" ">>, <<"a">>, <<" ", "a">>}

RECURSIVE TrimStart(_)
TrimStart(str) ==
  IF str # <<>> /\ Head(str) = " " THEN TrimStart(Tail(str)) ELSE str

RECURSIVE TrimEnd(_)
TrimEnd(str) ==
  IF str # <<>> /\ str[Len(str)] = " "
    THEN TrimEnd(SubSeq(str, 1, Len(str) - 1)) ELSE str

\* String.prototype.trim
Trim(str) == TrimEnd(TrimStart(str))

\* str.slice(0, n)
Slice(str, n) == SubSeq(str, 1, IF Len(str) < n THEN Len(str) ELSE n)

\* Values of a number box: '' or a number
Amounts == {<<>>, <<-1>>, <<5>>}

\* pointCost === "" || Number(pointCost) < 0
ValidAmount(v) == ~(v = <<>> \/ v[1] < 0)

NoFile == Null
Files == {"new.png"}
StoredImage == "s3/old.png"
UploadUrls == {"s3/new.png", EmptyString}

\* A row of the rewards table
Rewards ==
  {[id |-> 1, title |-> <<"a">>, cost_points |-> <<5>>, stock |-> <<5>>,
    image_url |-> StoredImage]}

NoReward == <<>>

\* (variant: the upload's answer is used whether it holds a url or not)
uploadToS3_NoUrlCheck(status, url) ==
  IF Resolves(status) THEN [ok |-> TRUE, url |-> url]
  ELSE [ok |-> FALSE, url |-> Null]

\* uploadToS3: rejects on an error answer, throws when the answer has no url
uploadToS3(status, url) ==
  IF Resolves(status) /\ Truthy(url) THEN [ok |-> TRUE, url |-> url]
  ELSE [ok |-> FALSE, url |-> Null]

\* onSubmit: PUT when a reward is being edited, POST otherwise
WriteRequest(edit, payloadTitle, finalImageUrl) ==
  [method |-> IF edit # NoReward THEN "PUT" ELSE "POST",
   title |-> payloadTitle, image_url |-> finalImageUrl, status |-> 0]

NoRows == <<>>
Rows == <<"rows">>

\* fetchRewards: rows on success, setList([]) in its catch; never rejects
fetchRewards(status) == IF Resolves(status) THEN Rows ELSE NoRows

RewardEvent(op, ok) == [op |-> op, ok |-> ok]

RewardInit ==
  /\ openForm = FALSE
  /\ editing = NoReward
  /\ title = <<>>
  /\ pointCost = <<>>
  /\ stock = <<>>
  /\ imageUrl = EmptyString
  /\ fileObj = NoFile
  /\ rewardStep = "idle"
  /\ uploadedUrl = Null
  /\ rewardWrite = <<>>
  /\ list = Rows
  /\ uncaught = FALSE
  /\ rewardLast = RewardEvent("mount", TRUE)

\* ------------------------------------------------------------------ blogs
\* The two revisions of the blog page
BlogRevisions == {"pages", "part_004"}

Tags == {"<p>", "</p>", "<img>"}

\* Editor contents, as tags and characters
Contents ==
  {<<>>, <<"<p>", " ", "</p>">>, <<"<img>">>, <<"<p>", "a", "</p>">>}

IsText(tok) == tok \notin Tags

\* html.replace(/<[^>]+>/g, '')
StripTags(html) == SelectSeq(html, IsText)

\* (variant: the tags count as text)
htmlIsEmpty_TagsKept(html) == Len(Trim(html)) = 0

\* htmlIsEmpty
htmlIsEmpty(html) == Len(Trim(StripTags(html))) = 0

NoBlog == <<>>
Me == 5

\* A row of the blogs table
Blogs ==
  {[id |-> 1, title |-> <<"a">>, content |-> <<"<p>", "a", "</p>">>,
    author_id |-> Me]}

\* The author check of handleSave, per revision
AuthorMissing(rev, author, me) ==
  IF rev = "pages" THEN author = <<>>
  ELSE me = <<>> \/ me[1] = 0

\* form.append('author_id', ...)
AuthorSent(rev, author, me) == IF rev = "pages" THEN author ELSE me

BlogWriteRequest(edit, rev, author, me) ==
  [method |-> IF edit # NoBlog THEN "PUT" ELSE "POST",
   author_id |-> AuthorSent(rev, author, me), status |-> 0]

\* loadBlogs: rows on success, setBlogs([]) in its catch; never rejects
loadBlogs(status) == IF Resolves(status) THEN Rows ELSE NoRows

\* resetForm: setAuthorId(currentUserId ?? '') in the revision that has the
\* author box
ResetAuthor(rev, author, me) == IF rev = "pages" THEN me ELSE author

BlogEvent(op, ok) == [op |-> op, ok |-> ok]

BlogInit ==
  /\ blogRev = "none"
  /\ open = FALSE
  /\ blogEditing = NoBlog
  /\ blogTitle = <<>>
  /\ content = <<>>
  /\ authorId = <<>>
  /\ currentUserId = <<>>
  /\ saving = FALSE
  /\ blogStep = "idle"
  /\ blogWrite = <<>>
  /\ blogs = NoRows
  /\ blogLast = BlogEvent("none", TRUE)

TaskInit ==
  /\ selectedUserId = NoUser
  /\ loading = FALSE
  /\ summary = NoData
  /\ activities = NoData
  /\ error = Null
  /\ fetches = <<>>
  /\ fetchLast = FetchEvent("mount", 0, "none", <<>>)
  /\ RewardInit
  /\ BlogInit

Urls == {"/login", "/admin"}

InitWith(rawToken, rawUser, rawAdmin, url, strict) ==
  LET b == Boot(rawToken, rawUser, rawAdmin, url, strict)
  IN /\ phase = b.phase
     /\ strictGuard = strict
     /\ lsToken = rawToken
     /\ lsUser = rawUser
     /\ lsAdminToken = b.lsAdminToken
     /\ token = b.token
     /\ user = b.user
     /\ defaultAuth = b.defaultAuth
     /\ location = b.location
     /\ navPending = FALSE
     /\ inflight = EmptyBag
     /\ formLoading = FALSE
     /\ formError = Null
     /\ last = Did("restore")
     /\ redirects = 0
     /\ destroyed = "no"
     /\ ViewInit
     /\ TaskInit

\* First visit: nothing is stored yet.
Init ==
  \E url \in Urls, strict \in BOOLEAN :
    InitWith(Null, RawAbsent, Null, url, strict)

\* Any storage content a page load may find (keys written by an earlier
\* revision, by another application of the same origin, or by hand).
RawTokens == Tokens \cup {Null, EmptyString}
RawUsers == {RawAbsent, RawEmpty, RawGarbage} \cup {JSONstringify(p) : p \in Principals}

InitAnyStorage ==
  \E url \in Urls, strict \in BOOLEAN, rawToken \in RawTokens,
     rawUser \in RawUsers, rawAdmin \in Tokens \cup {Null} :
    InitWith(rawToken, rawUser, rawAdmin, url, strict)

\* ------------------------------------------------------------------ helpers
\* Requests that can still be issued within the bound
Free == MaxInflight - BagCardinality(inflight)

Request(kind, hdr) == [kind |-> kind, auth |-> hdr]

\* n copies of one request
Copies(req, n) == [x \in {req} |-> n]

Pending == BagToSet(inflight)

Bump(n) == IF n < MaxRedirects THEN n + 1 ELSE n

\* (variant: a request that failed with 401/403 is kept to be sent again)
Remaining_RetryOnAuthFailure(bag, r, status) ==
  IF status \in AuthStatuses THEN bag ELSE bag (-) Copies(r, 1)

\* The requests in flight once r has settled with `status`: the client
\* hands the response or the error to the caller and dispatches nothing
Remaining(bag, r, status) == bag (-) Copies(r, 1)

\* Login keeps its form state only while it is mounted
FormKept(loc) == loc = "/login"

\* ------------------------------------------------------------------ actions
\* Login.handleSubmit up to its await: login() posts the credentials
LoginSubmit ==
  /\ phase = "running"
  /\ location = "/login"
  /\ ~formLoading
  /\ Free >= 1
  /\ LET hdr == RequestInterceptor(lsAdminToken, defaultAuth)
     IN /\ inflight' = inflight (+) Copies(Request("login", hdr), 1)
        /\ last' = Dispatched("loginSubmit", hdr)
  /\ formLoading' = TRUE
  /\ formError' = Null
  /\ UNCHANGED <<phase, strictGuard, storageVars, token, user, defaultAuth,
                 location, navPending, redirects, destroyed, viewVars, taskVars>>

\* A view of the admin region issues n requests in one task (a single
\* api call, or the batch a fetchAll / fetchData passes to Promise.all)
Fetch(n) ==
  /\ phase = "running"
  /\ location = "/admin"
  /\ n >= 1
  /\ Free >= n
  /\ LET hdr == RequestInterceptor(lsAdminToken, defaultAuth)
     IN /\ inflight' = inflight (+) Copies(Request("report", hdr), n)
        /\ last' = Dispatched("fetch", hdr)
  /\ UNCHANGED <<phase, strictGuard, storageVars, token, user, defaultAuth,
                 location, navPending, formVars, redirects, destroyed,
                 viewVars, taskVars>>

\* The response interceptor's effect on the page for a given status
Intercept(status) ==
  IF IsAuthFailure(status)
    THEN /\ lsAdminToken' = Null
         /\ navPending' = TRUE
         /\ redirects' = Bump(redirects)
         /\ destroyed' = "intercepted"
    ELSE UNCHANGED <<lsAdminToken, navPending, redirects, destroyed>>

\* A request of a view settles with `status`
Response(r, status) ==
  /\ phase = "running"
  /\ r \in Pending
  /\ r.kind = "report"
  /\ inflight' = Remaining(inflight, r, status)
  /\ IF ResponseInterceptor(status).how = "fulfilled"
       THEN UNCHANGED <<lsAdminToken, navPending, redirects, destroyed>>
       ELSE Intercept(status)
  /\ last' = Event("response", status, NoHeader, NoResult, Null, NullUser, Null, Null)
  /\ UNCHANGED <<phase, strictGuard, lsToken, lsUser, token, user,
                 defaultAuth, location, formVars, viewVars, taskVars>>

\* (variant: the error text is preferred to the server's message)
CatchMessage_ErrFirst(srvMsg, errMsg) ==
  IF Truthy(errMsg) THEN errMsg
  ELSE IF Truthy(srvMsg) THEN srvMsg
  ELSE MsgLoginFailed

\* login(): the message of the catch branch
CatchMessage(srvMsg, errMsg) ==
  IF Truthy(srvMsg) THEN srvMsg
  ELSE IF Truthy(errMsg) THEN errMsg
  ELSE MsgLoginFailed

\* (variant: the role is not looked at)
LoginOutcome_NoRole(tkn, data) ==
  IF ~Truthy(tkn) \/ ~TruthyObj(data)
    THEN [success |-> FALSE, message |-> MsgInvalidResponse]
    ELSE [success |-> TRUE, message |-> Null]

\* login(): what it resolves to for a 2xx body {token: tkn, data}
LoginOutcome(tkn, data) ==
  IF ~Truthy(tkn) \/ ~TruthyObj(data)
    THEN [success |-> FALSE, message |-> MsgInvalidResponse]
  ELSE IF data.role # "admin"
    THEN [success |-> FALSE, message |-> MsgNotAdmin]
  ELSE [success |-> TRUE, message |-> Null]

\* Login.handleSubmit after the await: the message it shows
ShownError(res) == IF Truthy(res.message) THEN res.message ELSE MsgLoginFailed

\* The POST /check-user settles with a 2xx body: rest of login(), then the
\* rest of handleSubmit
LoginResponseOk(r, tkn, data) ==
  /\ phase = "running"
  /\ r \in Pending
  /\ r.kind = "login"
  /\ inflight' = Remaining(inflight, r, 200)
  /\ LET res == LoginOutcome(tkn, data)
         a == SetAuthToken(tkn)
     IN /\ last' = Event("loginResponse", 200, NoHeader, res, tkn, data, Null, Null)
        /\ IF res.success
             THEN /\ token' = tkn
                  /\ user' = data
                  /\ lsToken' = tkn
                  /\ lsUser' = JSONstringify(data)
                  /\ defaultAuth' = a.common
                  /\ lsAdminToken' = a.admin_token
                  /\ destroyed' = "no"
                  /\ location' = Route("/admin", tkn, data, strictGuard)
                  /\ formLoading' = FALSE
                  /\ formError' = IF FormKept(location') THEN formError ELSE Null
             ELSE /\ UNCHANGED <<token, user, lsToken, lsUser, defaultAuth,
                                 lsAdminToken, destroyed, location>>
                  /\ formLoading' = FALSE
                  /\ formError' = IF FormKept(location) THEN ShownError(res) ELSE Null
  /\ UNCHANGED <<phase, strictGuard, navPending, redirects, viewVars, taskVars>>

\* The POST /check-user fails: response interceptor, catch branch of
\* login(), then the rest of handleSubmit
LoginResponseError(r, status, srvMsg, errMsg) ==
  /\ phase = "running"
  /\ r \in Pending
  /\ r.kind = "login"
  /\ ResponseInterceptor(status).how = "rejected"
  /\ status = 0 => srvMsg = Null
  /\ inflight' = Remaining(inflight, r, status)
  /\ Intercept(status)
  /\ LET res == [success |-> FALSE, message |-> CatchMessage(srvMsg, errMsg)]
     IN /\ last' = Event("loginError", status, NoHeader, res, Null, NullUser, srvMsg, errMsg)
        /\ formError' = IF FormKept(location) THEN ShownError(res) ELSE Null
  /\ formLoading' = FALSE
  /\ UNCHANGED <<phase, strictGuard, lsToken, lsUser, token, user,
                 defaultAuth, location, viewVars, taskVars>>

\* The session, its storage keys and the client's credential, as one value
Session ==
  [token |-> token, user |-> user, lsToken |-> lsToken, lsUser |-> lsUser,
   defaultAuth |-> defaultAuth, lsAdminToken |-> lsAdminToken]

\* (variant: the 'user' key is left in storage)
LogoutEffect_KeepsUserKey(s) ==
  [s EXCEPT !.token = Null, !.user = NullUser, !.lsToken = Null,
            !.defaultAuth = SetAuthToken(Null).common,
            !.lsAdminToken = SetAuthToken(Null).admin_token]

\* logout(): what it makes of the session s
LogoutEffect(s) ==
  [s EXCEPT !.token = Null, !.user = NullUser, !.lsToken = Null,
            !.lsUser = RawAbsent,
            !.defaultAuth = SetAuthToken(Null).common,
            !.lsAdminToken = SetAuthToken(Null).admin_token]

\* logout() of the AuthProvider, with the render that follows: the guard
\* of an admin route shown sees no token
LogoutCall ==
  /\ phase = "running"
  /\ LET s == LogoutEffect(Session)
     IN /\ token' = s.token
        /\ user' = s.user
        /\ lsToken' = s.lsToken
        /\ lsUser' = s.lsUser
        /\ defaultAuth' = s.defaultAuth
        /\ lsAdminToken' = s.lsAdminToken
        /\ location' = Route(location, s.token, s.user, strictGuard)
  /\ destroyed' = "logout"
  /\ last' = Did("logout")
  /\ UNCHANGED <<phase, strictGuard, navPending, inflight, formVars,
                 redirects, viewVars, taskVars>>

\* Sidebar.handleLogout: logout() then navigate('/login')
Logout ==
  /\ location = "/admin"
  /\ LogoutCall

\* Client-side navigation to url (link, history entry, navigate())
Navigate(url) ==
  /\ phase = "running"
  /\ location' = Route(url, token, user, strictGuard)
  /\ formLoading' = IF FormKept(location) /\ FormKept(location') THEN formLoading ELSE FALSE
  /\ formError' = IF FormKept(location) /\ FormKept(location') THEN formError ELSE Null
  /\ last' = Did("navigate")
  /\ UNCHANGED <<phase, strictGuard, storageVars, token, user, defaultAuth,
                 navPending, inflight, redirects, destroyed, viewVars, taskVars>>

\* The document is replaced: the navigation window.location.href started
\* commits, or the user reloads / opens a URL.  Requests of the old document
\* are gone; the new one starts from storage.
PageLoad(url) ==
  /\ navPending => url = "/login"
  /\ LET b == Boot(lsToken, lsUser, lsAdminToken, url, strictGuard)
     IN /\ phase' = b.phase
        /\ token' = b.token
        /\ user' = b.user
        /\ defaultAuth' = b.defaultAuth
        /\ lsAdminToken' = b.lsAdminToken
        /\ location' = b.location
  /\ navPending' = FALSE
  /\ inflight' = EmptyBag
  /\ formLoading' = FALSE
  /\ formError' = Null
  /\ redirects' = 0
  /\ last' = Did("restore")
  /\ UNCHANGED <<strictGuard, lsToken, lsUser, destroyed, viewVars, taskVars>>

Next ==
  \/ LoginSubmit
  \/ \E n \in 1..MaxInflight : Fetch(n)
  \/ \E r \in Pending, status \in Statuses : Response(r, status)
  \/ \E r \in Pending, tkn \in Tokens \cup {Null},
        data \in Principals \cup {NullUser} : LoginResponseOk(r, tkn, data)
  \/ \E r \in Pending, status \in Statuses,
        srvMsg \in ServerMessages \cup {Null}, errMsg \in ErrMessages :
        LoginResponseError(r, status, srvMsg, errMsg)
  \/ Logout
  \/ \E url \in Urls : Navigate(url)
  \/ \E url \in Urls : PageLoad(url)

Spec == Init /\ [][Next]_vars

\* logout() called in any state the session, its keys and the client's
\* credential can be in
Headers == {NoHeader} \cup {Bearer(t) : t \in Tokens}

InitAnySession ==
  \E tok \in Tokens \cup {Null}, usr \in Principals \cup {NullUser},
     rawToken \in Tokens \cup {Null}, rawUser \in RawUsers,
     rawAdmin \in Tokens \cup {Null}, hdr \in Headers,
     url \in Urls, strict \in BOOLEAN :
    /\ phase = "running"
    /\ strictGuard = strict
    /\ lsToken = rawToken
    /\ lsUser = rawUser
    /\ lsAdminToken = rawAdmin
    /\ token = tok
    /\ user = usr
    /\ defaultAuth = hdr
    /\ location = Route(url, tok, usr, strict)
    /\ navPending = FALSE
    /\ inflight = EmptyBag
    /\ formLoading = FALSE
    /\ formError = Null
    /\ last = Did("restore")
    /\ redirects = 0
    /\ destroyed = "no"
    /\ ViewInit
    /\ TaskInit

NextLogout == LogoutCall

SpecLogout == InitAnySession /\ [][NextLogout]_vars

\* ------------------------------------------------------- report view tasks
coreVars == <<phase, strictGuard, lsToken, lsUser, lsAdminToken, token, user,
              defaultAuth, location, navPending, inflight, formLoading,
              formError, last, redirects, destroyed>>

\* WindowPicker <select> onChange; the effect on the filter state then
\* builds the parameters of the new request
SelectWindow(w) ==
  /\ w # windowKey
  /\ windowKey' = w
  /\ params' = makeTimeParams(w, fromDate, toDate)
  /\ UNCHANGED <<fromDate, toDate, received, stored, renderThrew, coreVars,
               taskVars>>

\* WindowPicker "from" input, shown while the window is custom
SetFrom(d) ==
  /\ windowKey = "custom"
  /\ d # fromDate
  /\ fromDate' = d
  /\ params' = makeTimeParams(windowKey, d, toDate)
  /\ UNCHANGED <<windowKey, toDate, received, stored, renderThrew, coreVars,
               taskVars>>

\* WindowPicker "to" input, shown while the window is custom
SetTo(d) ==
  /\ windowKey = "custom"
  /\ d # toDate
  /\ toDate' = d
  /\ params' = makeTimeParams(windowKey, fromDate, d)
  /\ UNCHANGED <<windowKey, fromDate, received, stored, renderThrew, coreVars,
               taskVars>>

\* A view's request resolves with `body`: the view stores its reading of
\* it and renders
Receive(view, body) ==
  /\ received' = [view |-> view, body |-> body]
  /\ stored' = Normalize(view, body)
  /\ renderThrew' = RenderThrows(view, Normalize(view, body))
  /\ UNCHANGED <<windowKey, fromDate, toDate, params, coreVars, taskVars>>

\* A report page open in the admin region of a signed-in administrator
InitViews ==
  \E strict \in BOOLEAN :
    LET p == CHOOSE q \in Principals : q.role = "admin" /\ q.user_id = 1
    IN InitWith("t1", JSONstringify(p), "t1", "/admin", strict)

NextViews ==
  \/ \E w \in WindowOptions : SelectWindow(w)
  \/ \E d \in Dates : SetFrom(d)
  \/ \E d \in Dates : SetTo(d)
  \/ \E view \in Views, body \in Bodies : Receive(view, body)

SpecViews == InitViews /\ [][NextViews]_vars

SpecAnyStorage == InitAnyStorage /\ [][Next]_vars

\* ------------------------------------------------------------ reward tasks
rewardFrame == <<coreVars, viewVars, fetchVars, blogVars>>

formFields == <<title, pointCost, stock, imageUrl, fileObj>>

\* "Add reward" button, then the modal's effect on [open, initial]
openNew ==
  /\ ~openForm /\ rewardStep = "idle"
  /\ editing' = NoReward
  /\ openForm' = TRUE
  /\ title' = <<>> /\ pointCost' = <<>> /\ stock' = <<>>
  /\ imageUrl' = EmptyString /\ fileObj' = NoFile
  /\ rewardLast' = RewardEvent("open", TRUE)
  /\ UNCHANGED <<rewardStep, uploadedUrl, rewardWrite, list, uncaught,
                 rewardFrame>>

\* "Edit" button of row r, then the modal's effect on [open, initial]
openEdit(r) ==
  /\ ~openForm /\ rewardStep = "idle"
  /\ editing' = <<r>>
  /\ openForm' = TRUE
  /\ title' = r.title /\ pointCost' = r.cost_points /\ stock' = r.stock
  /\ imageUrl' = r.image_url /\ fileObj' = NoFile
  /\ rewardLast' = RewardEvent("edit", TRUE)
  /\ UNCHANGED <<rewardStep, uploadedUrl, rewardWrite, list, uncaught,
                 rewardFrame>>

\* Cancel button: onClose
cancelForm ==
  /\ openForm /\ rewardStep = "idle"
  /\ openForm' = FALSE
  /\ rewardLast' = RewardEvent("cancel", TRUE)
  /\ UNCHANGED <<editing, formFields, rewardStep, uploadedUrl, rewardWrite,
                 list, uncaught, rewardFrame>>

\* onChange of the name, point and stock boxes and of the file input
editForm(t, pc, st, f) ==
  /\ openForm /\ rewardStep = "idle"
  /\ <<t, pc, st, f>> # <<title, pointCost, stock, fileObj>>
  /\ title' = t /\ pointCost' = pc /\ stock' = st /\ fileObj' = f
  /\ rewardLast' = RewardEvent("typed", TRUE)
  /\ UNCHANGED <<openForm, editing, imageUrl, rewardStep, uploadedUrl,
                 rewardWrite, list, uncaught, rewardFrame>>

\* handleSubmit after the upload step: await onSubmit({...})
IssueWrite(finalImageUrl) ==
  /\ rewardWrite' =
       <<WriteRequest(editing, Slice(Trim(title), 120), finalImageUrl)>>
  /\ rewardStep' = "writing"

\* RewardFormModal.handleSubmit, up to its first await
handleSubmit ==
  /\ openForm /\ rewardStep = "idle"
  /\ uploadedUrl' = Null
  /\ IF Trim(title) = <<>> \/ ~ValidAmount(pointCost) \/ ~ValidAmount(stock)
       THEN /\ rewardLast' = RewardEvent("invalid", FALSE)
            /\ rewardWrite' = <<>>
            /\ UNCHANGED rewardStep
     ELSE IF fileObj # NoFile
       THEN /\ rewardLast' = RewardEvent("upload", TRUE)
            /\ rewardWrite' = <<>>
            /\ rewardStep' = "uploading"
     ELSE /\ rewardLast' = RewardEvent("write", TRUE)
          /\ IssueWrite(IF Truthy(imageUrl) THEN imageUrl ELSE Null)
  /\ UNCHANGED <<openForm, editing, formFields, list, uncaught, rewardFrame>>

\* The upload request settles
UploadDone(status, url) ==
  /\ rewardStep = "uploading"
  /\ ~Resolves(status) => url = EmptyString
  /\ LET up == uploadToS3(status, url)
     IN /\ uploadedUrl' = IF Resolves(status) THEN url ELSE Null
        /\ IF up.ok
             THEN /\ IssueWrite(up.url)
                  /\ rewardLast' = RewardEvent("write", TRUE)
             ELSE /\ rewardStep' = "idle"
                  /\ rewardLast' = RewardEvent("uploadFailed", FALSE)
                  /\ UNCHANGED rewardWrite
  /\ UNCHANGED <<openForm, editing, formFields, list, uncaught, rewardFrame>>

\* handleCreate / handleUpdate: the POST or PUT settles; on an error the
\* rejection passes through onSubmit and handleSubmit, which have no catch
WriteDone(status) ==
  /\ rewardStep = "writing"
  /\ rewardWrite' = <<[rewardWrite[1] EXCEPT !.status = status]>>
  /\ IF Resolves(status)
       THEN /\ rewardStep' = "reloading"
            /\ rewardLast' = RewardEvent("written", TRUE)
            /\ UNCHANGED uncaught
       ELSE /\ rewardStep' = "idle"
            /\ rewardLast' = RewardEvent("writeFailed", FALSE)
            /\ uncaught' = TRUE
  /\ UNCHANGED <<openForm, editing, formFields, uploadedUrl, list,
                 rewardFrame>>

\* fetchRewards of handleCreate / handleUpdate settles; handleSubmit then
\* calls onClose()
ReloadDone(status) ==
  /\ rewardStep = "reloading"
  /\ list' = fetchRewards(status)
  /\ openForm' = FALSE
  /\ rewardStep' = "idle"
  /\ rewardLast' = RewardEvent("submitClosed", Resolves(status))
  /\ UNCHANGED <<editing, formFields, uploadedUrl, rewardWrite, uncaught,
                 rewardFrame>>

\* toggleActive(r): PATCH .../toggle
toggleActive ==
  /\ ~openForm /\ rewardStep = "idle"
  /\ rewardStep' = "toggling"
  /\ rewardLast' = RewardEvent("toggle", TRUE)
  /\ UNCHANGED <<openForm, editing, formFields, uploadedUrl, rewardWrite,
                 list, uncaught, rewardFrame>>

\* The PATCH settles; toggleActive has no catch
ToggleDone(status) ==
  /\ rewardStep = "toggling"
  /\ IF Resolves(status)
       THEN /\ rewardStep' = "toggleReloading"
            /\ rewardLast' = RewardEvent("toggled", TRUE)
            /\ UNCHANGED uncaught
       ELSE /\ rewardStep' = "idle"
            /\ rewardLast' = RewardEvent("toggleFailed", FALSE)
            /\ uncaught' = TRUE
  /\ UNCHANGED <<openForm, editing, formFields, uploadedUrl, rewardWrite,
                 list, rewardFrame>>

\* fetchRewards of toggleActive settles
ToggleReloadDone(status) ==
  /\ rewardStep = "toggleReloading"
  /\ list' = fetchRewards(status)
  /\ rewardStep' = "idle"
  /\ rewardLast' = RewardEvent("toggleReloaded", Resolves(status))
  /\ UNCHANGED <<openForm, editing, formFields, uploadedUrl, rewardWrite,
                 uncaught, rewardFrame>>

WriteStatuses == {200, 500}

NextReward ==
  \/ openNew
  \/ \E r \in Rewards : openEdit(r)
  \/ cancelForm
  \/ \E t \in Texts, pc \in Amounts, st \in Amounts, f \in Files \cup {NoFile} :
       editForm(t, pc, st, f)
  \/ handleSubmit
  \/ \E status \in WriteStatuses, url \in UploadUrls : UploadDone(status, url)
  \/ \E status \in WriteStatuses : WriteDone(status)
  \/ \E status \in WriteStatuses : ReloadDone(status)
  \/ toggleActive
  \/ \E status \in WriteStatuses : ToggleDone(status)
  \/ \E status \in WriteStatuses : ToggleReloadDone(status)

InitReward == InitViews /\ strictGuard

SpecReward == InitReward /\ [][NextReward]_vars

\* -------------------------------------------------------------- blog tasks
blogFrame == <<coreVars, viewVars, fetchVars, rewardVars>>

blogFields == <<blogEditing, blogTitle, content, authorId>>

\* The page mounts: Promise.all([loadMe(), loadBlogs()]), each with its own
\* catch; `me` is what /auth/me gave (<<>> when it failed)
mountBlog(rev, me, status) ==
  /\ blogRev = "none"
  /\ blogRev' = rev
  /\ currentUserId' = me
  /\ authorId' = IF rev = "pages" /\ me # <<>> THEN me ELSE authorId
  /\ blogs' = loadBlogs(status)
  /\ blogLast' = BlogEvent("mount", TRUE)
  /\ UNCHANGED <<open, blogEditing, blogTitle, content, saving, blogStep,
                 blogWrite, blogFrame>>

\* resetForm
resetForm ==
  /\ blogEditing' = NoBlog
  /\ blogTitle' = <<>>
  /\ content' = <<>>
  /\ authorId' = ResetAuthor(blogRev, authorId, currentUserId)

\* "New blog" button: openNew
blogOpenNew ==
  /\ blogRev # "none" /\ ~open
  /\ resetForm
  /\ open' = TRUE
  /\ blogLast' = BlogEvent("open", TRUE)
  /\ UNCHANGED <<blogRev, currentUserId, saving, blogStep, blogWrite, blogs,
                 blogFrame>>

\* "Edit" button of row b: openEdit
blogOpenEdit(b) ==
  /\ blogRev # "none" /\ ~open
  /\ blogEditing' = <<b>>
  /\ blogTitle' = b.title
  /\ content' = b.content
  /\ authorId' = IF blogRev = "pages" THEN <<b.author_id>> ELSE authorId
  /\ open' = TRUE
  /\ blogLast' = BlogEvent("edit", TRUE)
  /\ UNCHANGED <<blogRev, currentUserId, saving, blogStep, blogWrite, blogs,
                 blogFrame>>

\* Cancel / close button: closeModal (also while a save is running)
closeModal ==
  /\ open
  /\ open' = FALSE
  /\ resetForm
  /\ blogLast' = BlogEvent("cancel", TRUE)
  /\ UNCHANGED <<blogRev, currentUserId, saving, blogStep, blogWrite, blogs,
                 blogFrame>>

\* onChange of the title box, the editor and the author box
editBlogForm(t, c, a) ==
  /\ open /\ blogStep = "idle"
  /\ blogRev = "part_004" => a = authorId
  /\ <<t, c, a>> # <<blogTitle, content, authorId>>
  /\ blogTitle' = t /\ content' = c /\ authorId' = a
  /\ blogLast' = BlogEvent("typed", TRUE)
  /\ UNCHANGED <<blogRev, open, blogEditing, currentUserId, saving, blogStep,
                 blogWrite, blogs, blogFrame>>

\* handleSave, up to its await; the submit button is disabled while saving
handleSave ==
  /\ open /\ ~saving
  /\ IF \/ Trim(blogTitle) = <<>>
        \/ htmlIsEmpty(content)
        \/ AuthorMissing(blogRev, authorId, currentUserId)
       THEN /\ blogLast' = BlogEvent("invalid", FALSE)
            /\ UNCHANGED <<saving, blogStep, blogWrite>>
       ELSE /\ saving' = TRUE
            /\ blogStep' = "writing"
            /\ blogWrite' = <<BlogWriteRequest(blogEditing, blogRev, authorId,
                                               currentUserId)>>
            /\ blogLast' = BlogEvent("save", TRUE)
  /\ UNCHANGED <<blogRev, open, blogFields, currentUserId, blogs, blogFrame>>

\* The PUT / POST settles: on an error the catch alerts and finally clears
\* the flag; otherwise loadBlogs starts
BlogWriteDone(status) ==
  /\ blogStep = "writing"
  /\ blogWrite' = <<[blogWrite[1] EXCEPT !.status = status]>>
  /\ IF Resolves(status)
       THEN /\ blogStep' = "reloading"
            /\ blogLast' = BlogEvent("written", TRUE)
            /\ UNCHANGED saving
       ELSE /\ blogStep' = "idle"
            /\ saving' = FALSE
            /\ blogLast' = BlogEvent("saveFailed", FALSE)
  /\ UNCHANGED <<blogRev, open, blogFields, currentUserId, blogs, blogFrame>>

\* loadBlogs settles; then closeModal() and finally setSaving(false)
BlogReloadDone(status) ==
  /\ blogStep = "reloading"
  /\ blogs' = loadBlogs(status)
  /\ open' = FALSE
  /\ resetForm
  /\ saving' = FALSE
  /\ blogStep' = "idle"
  /\ blogLast' = BlogEvent("saved", Resolves(status))
  /\ UNCHANGED <<blogRev, currentUserId, blogWrite, blogFrame>>

AuthorIds == {<<>>, <<Me>>}

NextBlog ==
  \/ \E rev \in BlogRevisions, me \in AuthorIds, status \in WriteStatuses :
       mountBlog(rev, me, status)
  \/ blogOpenNew
  \/ \E b \in Blogs : blogOpenEdit(b)
  \/ closeModal
  \/ \E t \in Texts, c \in Contents, a \in AuthorIds : editBlogForm(t, c, a)
  \/ handleSave
  \/ \E status \in WriteStatuses : BlogWriteDone(status)
  \/ \E status \in WriteStatuses : BlogReloadDone(status)

SpecBlog == InitReward /\ [][NextBlog]_vars

\* ------------------------------------------------- Activity Explorer tasks
explorerFrame == <<fromDate, toDate, received, stored, renderThrew, coreVars,
                   rewardVars, blogVars>>

\* useEffect([selectedUserId, windowKey, fromDate, toDate]) -> fetchData()
\* with the values of the render that follows the change
FetchData(uid, timeParams) ==
  IF ~UserSelected(uid)
    THEN UNCHANGED <<loading, error, fetches>>
    ELSE /\ Len(fetches) < MaxFetches
         /\ loading' = TRUE
         /\ error' = Null
         /\ fetches' = Append(fetches, NewFetch(uid, timeParams))

\* The Load button, pressed with `userIdInput` in the box
handleLoadUser(userIdInput) ==
  LET idNum == Number(userIdInput)
  IN IF ~ValidUserId(idNum)
       THEN /\ error' = MsgInvalidUserId
            /\ fetchLast' = FetchEvent("invalid", 0, "none", userIdInput)
            /\ UNCHANGED <<selectedUserId, loading, summary, activities,
                           fetches, windowKey, params, explorerFrame>>
       ELSE /\ selectedUserId' = SomeUser(idNum.val)
            /\ fetchLast' = FetchEvent("load", 0, "none", userIdInput)
            /\ IF SomeUser(idNum.val) # selectedUserId
                 THEN FetchData(SomeUser(idNum.val), params)
                 ELSE UNCHANGED <<loading, error, fetches>>
            /\ UNCHANGED <<summary, activities, windowKey, params,
                           explorerFrame>>

\* WindowPicker onChange = setWindowKey, then the effect
setWindowKey(w) ==
  /\ w # windowKey
  /\ windowKey' = w
  /\ params' = makeTimeParams(w, fromDate, toDate)
  /\ FetchData(selectedUserId, makeTimeParams(w, fromDate, toDate))
  /\ fetchLast' = FetchEvent("window", 0, "none", <<>>)
  /\ UNCHANGED <<selectedUserId, summary, activities, explorerFrame>>

\* catch (e): e?.response?.data?.message || "Failed to load ..."
FetchErrorMessage(srvMsg) ==
  IF Truthy(srvMsg) THEN srvMsg ELSE MsgFailedActivities

\* (variant: only the fetch issued last may write its data)
Displayed_LatestOnly(fs, i, shown) ==
  IF i = Len(fs) THEN DataFor(fs[i].params) ELSE shown

\* setSummary(sumData || null) / setActivities(actData || []) with the
\* payload the server returned for the fetch's params
Displayed(fs, i, shown) == DataFor(fs[i].params)

\* Promise.all: rejects on the first rejection, fulfils when every request
\* has fulfilled
PromiseAll(f, d, rejected) ==
  IF f.joined THEN "late"
  ELSE IF rejected THEN "rejected"
  ELSE IF \A o \in Datasets \ {d} : f.req[o] = "done" THEN "fulfilled"
  ELSE "pending"

\* Request d of fetch i settles; the continuation of fetchData's await runs
\* when that settles the Promise.all
Settle(i, d, rejected, msg, op) ==
  LET f == fetches[i]
      how == PromiseAll(f, d, rejected)
      g == [f EXCEPT !.req[d] = "done",
                     !.joined = f.joined \/ how \in {"rejected", "fulfilled"}]
  IN /\ fetches' = [fetches EXCEPT ![i] = g]
     /\ fetchLast' = FetchEvent(op, i, how, <<>>)
     /\ summary' = IF how = "fulfilled"
                     THEN Displayed(fetches, i, summary) ELSE summary
     /\ activities' = IF how = "fulfilled"
                        THEN Displayed(fetches, i, activities) ELSE activities
     /\ error' = IF how = "rejected" THEN msg ELSE error
     /\ loading' = IF how \in {"rejected", "fulfilled"} THEN FALSE ELSE loading
     /\ UNCHANGED <<selectedUserId, windowKey, params, explorerFrame>>

\* The server answers request d of fetch i
Respond(i, d, status, srvMsg) ==
  /\ i \in DOMAIN fetches
  /\ fetches[i].req[d] = "pending"
  /\ Resolves(status) => srvMsg = EmptyString
  /\ Settle(i, d, ~Resolves(status), FetchErrorMessage(srvMsg), "respond")

\* No answer within the timeout: axios rejects the request
Timeout(i, d) ==
  /\ i \in DOMAIN fetches
  /\ fetches[i].req[d] = "pending"
  /\ TimerArmed
  /\ Settle(i, d, TRUE, FetchErrorMessage(EmptyString), "timeout")

InitFetch == InitViews /\ strictGuard

NextFetch ==
  \/ \E userIdInput \in UserInputs : handleLoadUser(userIdInput)
  \/ \E w \in FetchWindows : setWindowKey(w)
  \/ \E i \in 1..MaxFetches, d \in Datasets, status \in {200, 500},
        srvMsg \in FetchMessages \cup {EmptyString} :
       Respond(i, d, status, srvMsg)
  \/ \E i \in 1..MaxFetches, d \in Datasets : Timeout(i, d)

SpecFetch == InitFetch /\ [][NextFetch]_vars

\* The timers of the browser run: a request that stays pending times out
SpecFetchFair ==
  /\ SpecFetch
  /\ \A i \in 1..MaxFetches, d \in Datasets : WF_vars(Timeout(i, d))

\* =================================================================== claims

\* The header a request issued in this state would leave with
Attached == RequestInterceptor(lsAdminToken, defaultAuth)

\* The credential of the session held by the AuthProvider
SessionHeader == IF Truthy(token) THEN Bearer(token) ELSE NoHeader

Intercepted == last.op \in {"response", "loginError"} /\ last.status \in AuthStatuses

\* C1: whenever a response with status 401 or 403 has been received, the
\* persisted token and the persisted principal are both cleared (a restore
\* finds neither a token nor a user) and the navigation to the login
\* boundary has been started.
C1_ForcedSignOutClearsSession ==
  Intercepted =>
    /\ lsToken = Null
    /\ lsUser = RawAbsent
    /\ ~Truthy(Restore(lsToken, lsUser).token)
    /\ ~TruthyObj(Restore(lsToken, lsUser).user)
    /\ navPending

\* C2: in every state reachable from a first visit, token and user are both
\* present or both absent, in memory and in persisted storage.
C2_TokenAndUserTogether ==
  /\ Truthy(token) <=> TruthyObj(user)
  /\ Truthy(lsToken) <=> RawTruthy(lsUser)

C2_Witness ==
  /\ last.op = "restore"
  /\ destroyed = "intercepted"
  /\ Truthy(token)
  /\ TruthyObj(user)

\* C3: however many in-flight requests fail with 401/403, the clearing and
\* the navigation to the login boundary are performed at most once per page.
C3_RedirectExactlyOnce == redirects <= 1

\* C4: a dispatched request carries a bearer header if and only if the
\* session holds a token, the header carries that token, and after a 401/403
\* interception requests are sent unauthenticated.
C4_BearerIffSessionToken ==
  last.op \in {"fetch", "loginSubmit"} =>
    /\ last.auth # NoHeader <=> Truthy(token)
    /\ Truthy(token) => last.auth = Bearer(token)
    /\ destroyed = "intercepted" => last.auth = NoHeader

\* C5: in every state the credential the API client would attach is the
\* session's current token: none after logout, the new token after a
\* successful login, and every dispatched request carried it.
C5_AttachedIsSessionToken ==
  /\ phase = "running" => Attached = SessionHeader
  /\ last.op \in {"fetch", "loginSubmit"} => last.auth = SessionHeader
  /\ last.op = "logout" => Attached = NoHeader
  /\ (last.op = "loginResponse" /\ last.result.success) => Attached = Bearer(last.tkn)

C5_Witness ==
  /\ last.op = "loginSubmit"
  /\ destroyed = "logout"
  /\ last.auth = NoHeader
  /\ \E r \in Pending : r.kind = "report" /\ r.auth # NoHeader

\* C6: once the session has been destroyed by logout or by a 401/403
\* interception, every navigation into the admin region (client-side or by
\* page load) ends at the login boundary until a login succeeds.
C6_DestroyedSessionIsRedirected ==
  (last.op \in {"navigate", "restore"} /\ destroyed # "no") => location = "/login"

\* C7: the admin children are shown only while the session holds a token
\* and, with the stricter guard, a user whose role is admin; otherwise the
\* login boundary is shown.
C7_GuardRendersOnlyWithSession ==
  phase = "running" =>
    /\ location \in {"/login", "/admin"}
    /\ location = "/admin" =>
         /\ Truthy(token)
         /\ strictGuard => (TruthyObj(user) /\ user.role = "admin")

C7_Witness ==
  /\ last.op = "navigate"
  /\ strictGuard
  /\ Truthy(token)
  /\ TruthyObj(user)
  /\ user.role # "admin"
  /\ location = "/login"

\* C8: a login answered with a token and a principal whose role is not admin
\* resolves to the not-an-admin failure, and changes neither the session in
\* memory nor anything persisted.
C8_NonAdminLoginForbidden ==
  [][(/\ last'.op = "loginResponse"
      /\ Truthy(last'.tkn)
      /\ TruthyObj(last'.data)
      /\ last'.data.role # "admin")
     => /\ last'.result = [success |-> FALSE, message |-> MsgNotAdmin]
        /\ UNCHANGED <<token, user, lsToken, lsUser, lsAdminToken, defaultAuth>>
        /\ location' = location]_vars

C8_Witness ==
  /\ last.op = "loginResponse"
  /\ Truthy(last.tkn)
  /\ last.data.role = "user"
  /\ ~Truthy(token)
  /\ ~TruthyObj(user)
  /\ lsToken = Null
  /\ lsUser = RawAbsent
  /\ formError = MsgNotAdmin

\* C9: a failed authentication call makes login resolve to a failure whose
\* message is the server's message when there is one and a generic text
\* otherwise, leaves the session as it was, and the mounted login form
\* shows that message.
C9_LoginFailureIsReported ==
  [][last'.op = "loginError"
     => /\ ~last'.result.success
        /\ Truthy(last'.result.message)
        /\ Truthy(last'.srvMsg) => last'.result.message = last'.srvMsg
        /\ ~Truthy(last'.srvMsg) =>
             last'.result.message \in (ErrMessages \ {EmptyString}) \cup {MsgLoginFailed}
        /\ UNCHANGED <<token, user, lsToken, lsUser>>
        /\ location = "/login" =>
             (formError' = last'.result.message /\ ~formLoading')]_vars

C9_Witness ==
  /\ last.op = "loginError"
  /\ last.status = 500
  /\ Truthy(last.srvMsg)
  /\ Truthy(last.errMsg)
  /\ formError = last.srvMsg
  /\ Truthy(token)

\* C10: a page load never fails, and when the persisted pair is absent,
\* incomplete or not decodable the session starts with neither token nor
\* user.
C10_RestoreNeverFails ==
  last.op = "restore" =>
    /\ phase = "running"
    /\ (~Truthy(lsToken) \/ ~RawTruthy(lsUser) \/ lsUser.kind = "garbage")
         => (~Truthy(token) /\ ~TruthyObj(user))

\* C11: a page load that directly follows a successful login starts with
\* the token and the principal that the login response carried.
C11_LoginThenRestoreRoundTrip ==
  [][(/\ last.op = "loginResponse"
      /\ last.result.success
      /\ last'.op = "restore")
     => /\ phase' = "running"
        /\ token' = last.tkn
        /\ user' = last.data]_vars

C11_Witness ==
  /\ last.op = "restore"
  /\ destroyed = "no"
  /\ Truthy(token)
  /\ lsToken = token
  /\ TruthyObj(user)
  /\ lsUser = JSONstringify(user)
  /\ user.user_id = 2

EmptySession ==
  [token |-> Null, user |-> NullUser, lsToken |-> Null, lsUser |-> RawAbsent,
   defaultAuth |-> NoHeader, lsAdminToken |-> Null]

\* C12: from any session state logout leaves the empty state (no token or
\* user in memory, no keys in storage, no credential attached); a second
\* logout, or a logout when already logged out, changes nothing.
C12_LogoutIdempotent ==
  [][last'.op = "logout"
     => /\ Session' = EmptySession
        /\ Attached' = NoHeader
        /\ LogoutEffect(Session') = Session'
        /\ Session = EmptySession => Session' = Session]_vars

C12_Witness ==
  /\ last.op = "logout"
  /\ destroyed = "logout"
  /\ Session = EmptySession
  /\ LogoutEffect(Session) = Session

\* C13: a request that fails, with 401/403 or otherwise, is handed to its
\* caller as a rejection carrying the same error; login's own handling then
\* reports a failure, and no failed call is treated as a success.
C13_ErrorPropagates ==
  /\ (last.op \in {"response", "loginError"} /\ ~Resolves(last.status))
       => last.caller = [how |-> "rejected", status |-> last.status]
  /\ last.op = "loginError" => (~last.result.success /\ ~Resolves(last.status))
  /\ last.op = "loginResponse" => Resolves(last.status)

C13_Witness ==
  /\ last.op = "response"
  /\ last.status = 403
  /\ last.caller.how = "rejected"
  /\ navPending

\* C14: the client dispatches a request only when a caller issues one, and
\* a request that settles (also with a failure, also a successful login
\* after failures) leaves with no request dispatched in its place.
C14_NoRetry ==
  [][/\ last'.op \in SettlingOps
          => BagCardinality(inflight') = BagCardinality(inflight) - 1
     /\ BagCardinality(inflight') > BagCardinality(inflight)
          => last'.op \in {"fetch", "loginSubmit"}]_vars

C14_Witness ==
  /\ last.op = "loginResponse"
  /\ last.result.success
  /\ navPending
  /\ redirects >= 1
  /\ inflight = EmptyBag

\* C15: token and user, in memory and under their storage keys, change only
\* in a successful login, a logout or a 401/403 interception.
C15_SessionFrame ==
  [][<<token, user, lsToken, lsUser>>' # <<token, user, lsToken, lsUser>>
     => \/ last'.op = "logout"
        \/ last'.op = "loginResponse" /\ last'.result.success
        \/ last'.op \in {"response", "loginError"} /\ last'.status \in AuthStatuses]_vars

C15_Witness ==
  /\ last.op = "response"
  /\ last.status = 500
  /\ Truthy(token)
  /\ lsToken = token
  /\ lsUser = JSONstringify(user)


\* C16: for every window other than custom, whatever the from/to bounds hold
\* (bounds left over from an earlier custom selection included), the
\* parameters are exactly {window: <the selected member>}: no from, no to.
C16_NamedWindowSendsOnlyWindow ==
  windowKey # "custom" =>
    /\ DOMAIN params = {"window"}
    /\ params["window"] = windowKey

\* A named window is selected while a bound of an earlier custom range remains
C16_Witness ==
  /\ windowKey \in {"7d", "this_month"}
  /\ fromDate # EmptyString
  /\ toDate # EmptyString
  /\ DOMAIN params = {"window"}

\* C17: for the custom window, `from` is sent exactly when the from bound is
\* non-empty and `to` exactly when the to bound is non-empty, each with the
\* bound unchanged, and `window` is never sent; both bounds empty gives the
\* empty parameter set.
C17_CustomSendsOnlySetBounds ==
  windowKey = "custom" =>
    /\ "window" \notin DOMAIN params
    /\ DOMAIN params \subseteq {"from", "to"}
    /\ ("from" \in DOMAIN params) <=> (fromDate # EmptyString)
    /\ ("to" \in DOMAIN params) <=> (toDate # EmptyString)
    /\ ("from" \in DOMAIN params) => params["from"] = fromDate
    /\ ("to" \in DOMAIN params) => params["to"] = toDate

\* Custom with only `from` set sends only `from`
C17_Witness ==
  /\ windowKey = "custom"
  /\ fromDate # EmptyString
  /\ toDate = EmptyString
  /\ DOMAIN params = {"from"}
  /\ params["from"] = fromDate

\* C18 (as stated): the selected window is one of all, last_7_days,
\* last_30_days, last_90_days, this_week, this_month, custom, and every
\* `window` parameter sent is one of the first six.
C18_WindowIsLongName ==
  /\ windowKey \in {"all", "last_7_days", "last_30_days", "last_90_days",
                    "this_week", "this_month", "custom"}
  /\ ("window" \in DOMAIN params) =>
       params["window"] \in {"all", "last_7_days", "last_30_days",
                             "last_90_days", "this_week", "this_month"}

\* C18 (amended): the windows a view can select are exactly the members of
\* WindowKey, i.e. all, 7d, 30d, 90d, this_week, this_month, custom, and
\* every `window` parameter sent is one of the first six.
C18_WindowIsWindowKey ==
  /\ WindowOptions = WindowKey
  /\ windowKey \in WindowKey
  /\ ("window" \in DOMAIN params) => params["window"] \in WindowKey \ {"custom"}

\* The seven-day window is selected and sent
C18_Witness ==
  /\ windowKey = "7d"
  /\ DOMAIN params = {"window"}
  /\ params["window"] = "7d"

\* The payloads a view expects: a list for a list view, an object otherwise
PayloadsOf(view) ==
  IF view \in ListViews THEN {T \in Payloads : IsArray(T)}
  ELSE {T \in Payloads : ~IsArray(T)}

\* C19: a view that received payload T as {data: T}, as {data: T, meta} or
\* as bare T holds T in its state, for every report view, for object and
\* for list payloads.
C19_ThreeShapesStoreSamePayload ==
  \A T \in PayloadsOf(received.view) :
    (\/ received.body = T
     \/ \E sh \in EnvelopeShapes : received.body = Envelope(T, sh))
    => stored = T

\* The bodies the views do not recognise: null, and an object without a
\* `data` field where a list is expected
Unrecognised(view, body) ==
  \/ body = JsNull
  \/ view \in ListViews /\ body = Obj("error")

\* C20: on a body of no accepted shape the view does not throw and does not
\* store the body: its state is set to the default (empty list, null
\* summary, zero aggregates).
C20_UnrecognisedBodyDegrades ==
  (received.view \in Views /\ Unrecognised(received.view, received.body)) =>
    /\ ~renderThrew
    /\ stored = Default(received.view)

\* C26: in every reachable state the token under the storage key
\* `admin_token` (read by the request interceptor) and the token under the
\* key `token` (persisted and restored by the session store) agree: both
\* absent, or both present and equal.
C26_StorageKeysAgree ==
  \/ lsAdminToken = Null /\ lsToken = Null
  \/ lsAdminToken # Null /\ lsToken # Null /\ lsAdminToken = lsToken

\* A request of some fetch is still in flight
InFlight(i, d) == i \in DOMAIN fetches /\ fetches[i].req[d] = "pending"

\* The request has settled and its fetch has left the loading state
Completed(i, d) ==
  /\ i \in DOMAIN fetches
  /\ fetches[i].req[d] = "done"
  /\ fetches[i].joined

AnyInFlight == \E i \in 1..MaxFetches, d \in Datasets : InFlight(i, d)

\* C21: when a fetch fails the view shows an error and the data the fetch
\* feeds (summary, activity list) is reset to its empty default, so nothing
\* of an earlier successful fetch stays on screen with the error.
C21_FailureResetsData ==
  fetchLast.how = "rejected" =>
    /\ error # Null
    /\ summary = NoData
    /\ activities = NoData

\* C23: every dispatched request eventually completes (a response, an HTTP
\* error, or the timeout's transport error), and every fetch the view starts
\* eventually leaves its loading state.
C23_EveryRequestCompletes ==
  \A i \in 1..MaxFetches, d \in Datasets :
    InFlight(i, d) ~> Completed(i, d)

\* A request got no answer and failed on the timeout; the view left loading
C23_Witness ==
  /\ fetchLast.op = "timeout"
  /\ fetchLast.how = "rejected"
  /\ error = MsgFailedActivities
  /\ ~loading

\* C24: the view updates its state (data or error) for a batch only after
\* every request of the batch has settled, also when one has failed.
C24_ProceedsOnlyWhenAllSettled ==
  \A i \in DOMAIN fetches :
    fetches[i].joined => \A d \in Datasets : fetches[i].req[d] = "done"

C27_LoadingIffInFlight == loading <=> AnyInFlight

\* C30: no request is issued while no user is selected; Load selects a user
\* only on a non-zero number; on any other input it sets the error message
\* and leaves the selected user, the summary, the list and the requests as
\* they were.
C30_LoadGuard ==
  [][/\ selectedUserId' = NoUser => fetches' = <<>>
     /\ fetchLast'.op = "invalid" =>
          /\ error' = MsgInvalidUserId
          /\ UNCHANGED <<selectedUserId, summary, activities, fetches>>
     /\ fetchLast'.op = "load" =>
          /\ ~Number(fetchLast'.input).nan
          /\ Number(fetchLast'.input).val # 0
          /\ selectedUserId' = SomeUser(Number(fetchLast'.input).val)
     /\ selectedUserId' # selectedUserId => fetchLast'.op = "load"]_vars

\* Load pressed on a text that is no number while a user's data is shown
C30_Witness ==
  /\ fetchLast.op = "invalid"
  /\ Number(fetchLast.input).nan
  /\ selectedUserId = SomeUser(7)
  /\ summary # NoData
  /\ error = MsgInvalidUserId

\* C22: no action of a view lets a rejected request escape as an uncaught
\* error.
C22_NoUncaughtRejection == ~uncaught

\* The image of the write request of the running submission is the url the
\* upload returned when a file was selected, the stored image otherwise; and
\* after a failed validation or upload no write was issued, the form is open
C28_UploadFirst ==
  /\ (\/ rewardStep \in {"writing", "reloading"}
      \/ rewardLast.op \in {"writeFailed", "submitClosed"}) =>
       IF fileObj # NoFile
         THEN Truthy(uploadedUrl) /\ rewardWrite[1].image_url = uploadedUrl
         ELSE rewardWrite[1].image_url =
                (IF Truthy(imageUrl) THEN imageUrl ELSE Null)
  /\ rewardLast.op \in {"invalid", "uploadFailed"} =>
       openForm /\ rewardWrite = <<>> /\ rewardStep = "idle"

NonBlank(str) == \E k \in DOMAIN str : str[k] # " "

\* C29: a save issues a write (PUT when editing, POST otherwise) only when
\* the title is non-blank, the content has non-blank text outside its tags
\* and an author is identified; a failed write leaves the modal and the form
\* as they are; the save closes the modal and resets the form only after
\* the write succeeded and the list was reloaded; the saving flag is false
\* after every outcome.
C29_BlogSave ==
  [][/\ blogLast'.op = "save" =>
          /\ NonBlank(blogTitle)
          /\ \E k \in DOMAIN content : content[k] \notin Tags \cup {" "}
          /\ blogWrite'[1].author_id # <<>>
          /\ blogWrite'[1].method = (IF blogEditing # NoBlog THEN "PUT" ELSE "POST")
     /\ blogWrite' # blogWrite =>
          blogLast'.op \in {"save", "written", "saveFailed"}
     /\ blogLast'.op = "saveFailed" =>
          /\ UNCHANGED <<open, blogEditing, blogTitle, content, authorId>>
          /\ ~saving'
     /\ (open /\ ~open') => blogLast'.op \in {"cancel", "saved"}
     /\ blogLast'.op = "saved" =>
          /\ blogStep = "reloading"
          /\ Resolves(blogWrite[1].status)
          /\ ~open' /\ blogTitle' = <<>> /\ content' = <<>>
          /\ blogEditing' = NoBlog
          /\ ~saving'
     /\ blogLast'.op = "invalid" => ~saving' /\ blogWrite' = blogWrite]_vars

\* An edit of an existing blog was written with PUT, the list reloaded, the
\* modal closed and the form reset
C29_Witness ==
  /\ blogLast.op = "saved"
  /\ blogWrite[1].method = "PUT"
  /\ Resolves(blogWrite[1].status)
  /\ ~open /\ ~saving
  /\ blogTitle = <<>>

====
